---- MODULE Spec2Model ----
(***************************************************************************)
(* Model of the LZ4 frame decoder of rust-lz4: the read-side staging       *)
(* buffer (Lz4ReadBuf), the write-side window (Lz4WriteBuf) and            *)
(* LzDecoder::decode, one action per step of decode's control flow.        *)
(*                                                                         *)
(* Byte arrays that the code allocates zero-filled (vec![0u8; cap]) are    *)
(* represented by the sequence of their first Len bytes; every slot at or  *)
(* beyond Len still holds its initial 0 (BufGet).  The capacity is kept in *)
(* the record field cap, which is what buf.len() returns in the code.      *)
(***************************************************************************)
EXTENDS Integers, Sequences, FiniteSets, TLC

VARIABLES
    input,          \* the byte source handed to decode (R: Read)
    pos,            \* number of bytes the source has delivered so far
    input_buffer,   \* LzDecoder.input_buffer : Lz4ReadBuf
    output,         \* decode's local Lz4WriteBuf (without its inner writer)
    sink,           \* bytes the inner writer (W: Write) has accepted, in order
    sinkMax,        \* most bytes the inner writer accepts in one write call
    frame_header,   \* FrameHeaderInfo returned by parse_header
    pc,             \* position in decode / which harness operation runs
    result,         \* value returned by decode (kind "Running" until then)
    call,           \* the last call made on a window used on its own, or
                    \* "decode" for a second decode call on the decoder
    emitted         \* what the calls made on that window are to emit, in
                    \* order; in a second decode call, the first call's sink

vars == <<input, pos, input_buffer, output, sink, sinkMax, frame_header, pc,
          result, call, emitted>>

----------------------------------------------------------------------------
(* Program constants (decoder.rs) *)

INPUT_BUFFER_SIZE == 4194304
WINDOW_SIZE == 65536
FRAME_MAGIC == 407708164
U32_LEN == 4
U16_LEN == 2
BASE_MATCH_LEN == 4

----------------------------------------------------------------------------
(* Arithmetic helpers *)

Min(a, b) == IF a < b THEN a ELSE b
Max(a, b) == IF a > b THEN a ELSE b

RECURSIVE Pow2AtLeast(_, _)
Pow2AtLeast(n, p) == IF p >= n THEN p ELSE Pow2AtLeast(n, 2 * p)

\* usize::next_power_of_two
next_power_of_two(n) == Pow2AtLeast(n, 1)

\* x & (len - 1) for len a power of two
Mask(x, len) == x % len

\* is_bit_set(n, i): n & (1 << i) != 0
is_bit_set(n, i) == (n \div (2 ^ i)) % 2 = 1

\* u16::from_le_bytes
u16_from_le_bytes(bs) == bs[1] + 256 * bs[2]

\* u32::from_le_bytes.  A u32 is kept as bit 31 and the low 31 bits, the two
\* parts decode takes it apart into (bs_data & mask, bs_data & (mask - 1)).
u32_from_le_bytes(bs) ==
    [bit31 |-> bs[4] >= 128,
     low |-> bs[1] + 256 * bs[2] + 65536 * bs[3] + 16777216 * (bs[4] % 128)]

U32(v) == [bit31 |-> FALSE, low |-> v]

----------------------------------------------------------------------------
(* Zero-initialised byte arrays *)

Zeros(n) == [k \in 1..n |-> 0]

BufGet(b, i) == IF i < Len(b) THEN b[i + 1] ELSE 0

\* &b[lo..hi]: the stored bytes of the range, then zeros for the slots of
\* the range that were never written
BufSlice(b, lo, hi) ==
    IF hi <= Len(b) THEN SubSeq(b, lo + 1, hi)
    ELSE SubSeq(b, lo + 1, Len(b)) \o Zeros(hi - Max(lo, Len(b)))

\* b[at..at+Len(bytes)].copy_from_slice(bytes)
BufStore(b, at, bytes) ==
    IF bytes = <<>> THEN b
    ELSE (IF at <= Len(b) THEN SubSeq(b, 1, at) ELSE b \o Zeros(at - Len(b)))
            \o bytes
            \o SubSeq(b, at + Len(bytes) + 1, Len(b))

\* b.copy_within(lo..hi, dest): memmove, the source is read before the store
copy_within(b, lo, hi, dest) == BufStore(b, dest, BufSlice(b, lo, hi))

----------------------------------------------------------------------------
(* The byte source.  read_exact(buf) on a source with fewer bytes left     *)
(* than asked delivers what is left and fails with UnexpectedEof.          *)

Remaining(inp, p) == Len(inp) - p

read_exact(inp, p, amt) ==
    IF amt <= Remaining(inp, p)
    THEN [ok |-> TRUE, bytes |-> SubSeq(inp, p + 1, p + amt), pos |-> p + amt]
    ELSE [ok |-> FALSE, bytes |-> SubSeq(inp, p + 1, Len(inp)),
          pos |-> Len(inp)]

\* Read::read(buf) with buf of amt bytes: up to amt bytes, 0 only at the end
read(inp, p, amt) ==
    LET n == Min(amt, Remaining(inp, p))
    IN [n |-> n, pos |-> p + n]

----------------------------------------------------------------------------
(* read_buf::Lz4ReadBuf = [buf, n, end, cap]                               *)

ReadBuf_with_capacity(cap) ==
    [buf |-> <<>>, n |-> 0, end |-> 0, cap |-> next_power_of_two(cap)]

capacity(rb) == rb.cap

rb_len(rb) == rb.end - rb.n

\* status: "ok", "io" (read_exact failed) or "panic" (slice out of range)
extend_read(rb, inp, p, amt) ==
    IF rb.end + amt > rb.cap
    THEN [status |-> "panic", rb |-> rb, pos |-> p]
    ELSE LET r == read_exact(inp, p, amt)
             filled == [rb EXCEPT !.buf = BufStore(rb.buf, rb.end, r.bytes)]
         IN IF r.ok
            THEN [status |-> "ok", rb |-> [filled EXCEPT !.end = rb.end + amt],
                  pos |-> r.pos]
            ELSE [status |-> "io", rb |-> filled, pos |-> r.pos]

\* get_u32: the assert, then split_at(offset).0 must be exactly 4 bytes long
\* for try_into().unwrap() to succeed
get_u32(rb, index) ==
    LET offset == rb.n + index + 4
    IN IF offset > rb.end \/ offset # 4
       THEN [status |-> "panic", value |-> U32(0)]
       ELSE [status |-> "ok", value |-> u32_from_le_bytes(BufSlice(rb.buf, 0, offset))]

\* mutant of compact: nothing is moved and the cursors stay
compact_KeepsHead(rb) == rb

\* compact: n <= end in every reachable state, so the
\* subtraction end -= n never wraps
compact(rb) ==
    [rb EXCEPT !.buf = IF rb.n < rb.end
                       THEN copy_within(rb.buf, rb.n, rb.end, 0) ELSE rb.buf,
               !.end = rb.end - rb.n,
               !.n = 0]

consume(rb, amt) == [rb EXCEPT !.n = rb.n + amt]

\* pop_byte: none when nothing is staged
pop_byte(rb) ==
    IF rb_len(rb) = 0
    THEN [some |-> FALSE, v |-> 0, rb |-> rb]
    ELSE [some |-> TRUE, v |-> BufGet(rb.buf, rb.n),
          rb |-> [rb EXCEPT !.n = rb.n + 1]]

\* Index: &self.buf[self.n..][i]
rb_at(rb, i) == BufGet(rb.buf, rb.n + i)

\* Index: &self.buf[self.n..][..k]
rb_prefix(rb, k) == BufSlice(rb.buf, rb.n, rb.n + k)

----------------------------------------------------------------------------
(* write_buf::Lz4WriteBuf = [buf, end, total_written, cap]; its inner      *)
(* writer is the pair (snk, smax): the bytes accepted so far and the most  *)
(* bytes one write call accepts (TestWrite.max_write_size).                *)

WriteBuf_with_capacity(cap) ==
    [buf |-> <<>>, end |-> 0, total_written |-> 0,
     cap |-> next_power_of_two(cap)]

\* decode's output before line 85 has run
NoWindow == [buf |-> <<>>, end |-> 0, total_written |-> 0, cap |-> 0]

\* inner.write(bytes): the number of bytes the sink takes
inner_write(bytes, smax) == Min(Len(bytes), smax)

\* mutant of write: the whole offered buffer is mirrored into the ring, not
\* the amt bytes the sink took
write_MirrorsOffered(wb, snk, smax, bytes) ==
    LET amt == inner_write(bytes, smax)
        len == Min(Len(bytes), wb.cap)
        n == Min(wb.cap - wb.end, len)
        b1 == BufStore(wb.buf, wb.end, SubSeq(bytes, 1, n))
        b2 == BufStore(b1, 0, SubSeq(bytes, n + 1, len))
    IN [status |-> "ok", amt |-> amt, sink |-> snk \o SubSeq(bytes, 1, amt),
        wb |-> [wb EXCEPT !.buf = b2,
                          !.end = Mask(wb.end + len, wb.cap),
                          !.total_written = wb.total_written + amt]]

\* Lz4WriteBuf::write.  status "panic": copy_from_slice on slices of
\* different lengths, after the sink has taken its bytes.
write(wb, snk, smax, bytes) ==
    LET amt == inner_write(bytes, smax)
        snk1 == snk \o SubSeq(bytes, 1, amt)
    IN IF amt > wb.cap
       THEN LET n == amt - wb.cap
            IN IF Len(bytes) - n # wb.cap
               THEN [status |-> "panic", amt |-> amt, wb |-> wb, sink |-> snk1]
               ELSE [status |-> "ok", amt |-> amt, sink |-> snk1,
                     wb |-> [wb EXCEPT !.buf = SubSeq(bytes, n + 1, Len(bytes)),
                                       !.end = 0]]
       ELSE LET n == Min(wb.cap - wb.end, amt)
                b1 == BufStore(wb.buf, wb.end, SubSeq(bytes, 1, n))
                b2 == BufStore(b1, 0, SubSeq(bytes, n + 1, amt))
            IN [status |-> "ok", amt |-> amt, sink |-> snk1,
                wb |-> [wb EXCEPT !.buf = b2,
                                  !.end = Mask(wb.end + amt, wb.cap),
                                  !.total_written = wb.total_written + amt]]

\* Write::write_all over Lz4WriteBuf::write: status "io" is WriteZero
RECURSIVE write_all(_, _, _, _)

\* write_all once a write call has returned w
write_all_rest(w, smax, bytes) ==
    IF w.status # "ok"
    THEN [status |-> w.status, wb |-> w.wb, sink |-> w.sink]
    ELSE IF w.amt = 0
    THEN [status |-> "io", wb |-> w.wb, sink |-> w.sink]
    ELSE write_all(w.wb, w.sink, smax, SubSeq(bytes, w.amt + 1, Len(bytes)))

write_all(wb, snk, smax, bytes) ==
    IF bytes = <<>>
    THEN [status |-> "ok", wb |-> wb, sink |-> snk]
    ELSE write_all_rest(write(wb, snk, smax, bytes), smax, bytes)

\* copy_non_overlap: inner.write_all hands the whole chunk to the sink
RECURSIVE copy_non_overlap(_, _, _, _)
copy_non_overlap(wb, snk, index, amt) ==
    IF ~(index < wb.cap) \/ ~(amt < wb.cap)
    THEN [status |-> "panic", wb |-> wb, sink |-> snk]
    ELSE LET n == Min(Min(wb.cap - wb.end, wb.cap - index), amt)
             wb1 == [wb EXCEPT
                       !.total_written = wb.total_written + n,
                       !.buf = copy_within(wb.buf, index, index + n, wb.end),
                       !.end = Mask(wb.end + n, wb.cap)]
             snk1 == snk \o BufSlice(wb.buf, index, index + n)
         IN IF n < amt
            THEN copy_non_overlap(wb1, snk1, Mask(index + n, wb.cap), amt - n)
            ELSE [status |-> "ok", wb |-> wb1, sink |-> snk1]

\* mutant of copy_periods: one copy of amt bytes, as for a match that does
\* not overlap its own output
copy_periods_SingleCopy(wb, snk, idx, offset, amt) ==
    copy_non_overlap(wb, snk, idx, amt)

\* turns j, j+1, ..., j+k-1 of the while loop of copy_from_offset, from the
\* result r of the turns before: turn j copies offset bytes from index
\* idx + j * offset (masked); a failed copy_non_overlap ends the loop.  The
\* turns are split in halves to keep the evaluation shallow.
RECURSIVE copy_loop(_, _, _, _, _)
copy_loop(r, idx, offset, j, k) ==
    IF k = 0 \/ r.status # "ok" THEN r
    ELSE IF k = 1
    THEN copy_non_overlap(r.wb, r.sink, Mask(idx + j * offset, r.wb.cap), offset)
    ELSE copy_loop(copy_loop(r, idx, offset, j, k \div 2),
                   idx, offset, j + k \div 2, k - k \div 2)

\* the while loop of copy_from_offset, which runs while amt > offset and
\* takes offset from amt each turn, and the final copy_non_overlap
copy_periods(wb, snk, idx, offset, amt) ==
    LET turns == IF amt > offset THEN (amt - 1) \div offset ELSE 0
        r == copy_loop([status |-> "ok", wb |-> wb, sink |-> snk],
                       idx, offset, 0, turns)
    IN IF r.status # "ok" THEN r
       ELSE copy_non_overlap(r.wb, r.sink, Mask(idx + turns * offset, wb.cap),
                             amt - turns * offset)

\* mutant of copy_from_offset: the wrapped start index forgets self.end
copy_from_offset_IndexSlip(wb, snk, offset, amt) ==
    IF ~(offset < wb.cap)
    THEN [status |-> "panic", wb |-> wb, sink |-> snk]
    ELSE LET idx0 == IF wb.end < offset
                     THEN wb.cap - offset
                     ELSE wb.end - offset
         IN copy_periods(wb, snk, Mask(idx0, wb.cap), offset, amt)

\* mutant of copy_from_offset: an offset that reaches back before the first
\* byte written to this window fails
copy_from_offset_BeforeStartFails(wb, snk, offset, amt) ==
    IF ~(offset < wb.cap) \/ offset > wb.total_written
    THEN [status |-> "panic", wb |-> wb, sink |-> snk]
    ELSE IF offset = 0 /\ amt > 0
    THEN [status |-> "hang", wb |-> wb, sink |-> snk]
    ELSE LET idx0 == IF wb.end < offset
                     THEN wb.cap + wb.end - offset
                     ELSE wb.end - offset
         IN copy_periods(wb, snk, Mask(idx0, wb.cap), offset, amt)

\* Lz4WriteBuf::copy_from_offset.  status "hang": with offset 0 the loop
\* never decreases amt.
copy_from_offset(wb, snk, offset, amt) ==
    IF ~(offset < wb.cap)
    THEN [status |-> "panic", wb |-> wb, sink |-> snk]
    ELSE IF offset = 0 /\ amt > 0
    THEN [status |-> "hang", wb |-> wb, sink |-> snk]
    ELSE LET idx0 == IF wb.end < offset
                     THEN wb.cap + wb.end - offset
                     ELSE wb.end - offset
         IN copy_periods(wb, snk, Mask(idx0, wb.cap), offset, amt)

----------------------------------------------------------------------------
(* decoder::LzDecoder                                                      *)

\* DecodeResult: Ok or a DecodeError variant; size is the payload of
\* InvalidBlockSize, feature the payload of UnsuppotedFeature.  kind "Panic"
\* is a failed assert, unwrap or slice bound.
Res(kind) == [kind |-> kind, size |-> 0, feature |-> ""]

Running == Res("Running")

\* map_err(ReadIoError) / map_err(WriteIoError) on a buffer operation's status
ReadFailure(status) == IF status = "io" THEN Res("ReadIoError") ELSE Res("Panic")

WriteFailure(status) ==
    IF status = "io" THEN Res("WriteIoError")
    ELSE IF status = "hang" THEN Res("Hang") ELSE Res("Panic")

NoHeader ==
    [block_indep_flag |-> FALSE, block_checksum_flag |-> FALSE,
     content_size_flag |-> FALSE, content_checksum_flag |-> FALSE,
     dict_id_flag |-> FALSE, block_max_size |-> 0, header_size |-> 0]

content_size_num_size == 4
dict_size == 4

\* LzDecoder::new
LzDecoder_new == ReadBuf_with_capacity(INPUT_BUFFER_SIZE)

\* mutant of read_u32: a short read leaves the zeroed int_data in place
read_u32_ShortReadIsZero(inp, p) ==
    LET r == read_exact(inp, p, U32_LEN)
    IN [ok |-> TRUE, value |-> IF r.ok THEN u32_from_le_bytes(r.bytes) ELSE U32(0),
        pos |-> r.pos]

\* mutant of read_u32: the source is left where it was
read_u32_NoAdvance(inp, p) ==
    LET r == read_exact(inp, p, U32_LEN)
    IN [ok |-> r.ok, value |-> IF r.ok THEN u32_from_le_bytes(r.bytes) ELSE U32(0),
        pos |-> p]

\* read_u32: read_exact of 4 bytes straight from the source
read_u32(inp, p) ==
    LET r == read_exact(inp, p, U32_LEN)
    IN [ok |-> r.ok, value |-> IF r.ok THEN u32_from_le_bytes(r.bytes) ELSE U32(0),
        pos |-> r.pos]

\* get_var_int_from_buf
RECURSIVE var_int_loop(_, _)

\* mutant of var_int_loop: the loop ends after its first byte
var_int_loop_OneByte(rb, n) ==
    LET b == pop_byte(rb)
    IN IF ~b.some THEN [ok |-> FALSE, n |-> n, rb |-> b.rb]
       ELSE [ok |-> TRUE, n |-> n + b.v, rb |-> b.rb]

var_int_loop(rb, n) ==
    LET b == pop_byte(rb)
    IN IF ~b.some THEN [ok |-> FALSE, n |-> n, rb |-> b.rb]
       ELSE IF b.v # 255 THEN [ok |-> TRUE, n |-> n + b.v, rb |-> b.rb]
       ELSE var_int_loop(b.rb, n + b.v)

get_var_int_from_buf(rb, base) ==
    IF base # 15 THEN [ok |-> TRUE, n |-> base, rb |-> rb]
    ELSE var_int_loop(rb, base)

\* parse_header returns [result, rb, pos, info]
HeaderFail(res, e) ==
    [result |-> res, rb |-> e.rb, pos |-> e.pos, info |-> NoHeader]

\* parse_header from the dictionary id read (e3) on
header_info(e3, flg_byte, header_size) ==
    IF e3.status # "ok" THEN HeaderFail(ReadFailure(e3.status), e3)
    ELSE IF e3.rb.n + header_size >= e3.rb.cap THEN HeaderFail(Res("Panic"), e3)
    ELSE [result |-> Res("Ok"),
          rb |-> compact(consume(e3.rb, header_size)),
          pos |-> e3.pos,
          info |-> [block_indep_flag |-> is_bit_set(flg_byte, 5),
                    block_checksum_flag |-> is_bit_set(flg_byte, 4),
                    content_size_flag |-> is_bit_set(flg_byte, 3),
                    content_checksum_flag |-> is_bit_set(flg_byte, 2),
                    dict_id_flag |-> is_bit_set(flg_byte, 0),
                    block_max_size |-> (rb_at(e3.rb, U32_LEN + 1) \div 16) % 8,
                    header_size |-> header_size]]

\* parse_header from the content size read (e2) on
header_dict_id(e2, inp, flg_byte, header_size) ==
    IF e2.status # "ok" THEN HeaderFail(ReadFailure(e2.status), e2)
    ELSE IF is_bit_set(flg_byte, 0)
    THEN header_info(extend_read(e2.rb, inp, e2.pos, dict_size), flg_byte,
                     header_size + dict_size)
    ELSE header_info(e2, flg_byte, header_size)

\* parse_header from the FLG byte on, the magic number being right
header_flags(e1, inp, flg_byte, min_header_size) ==
    IF flg_byte \div 64 # 1 THEN HeaderFail(Res("WrongVersion"), e1)
    ELSE IF is_bit_set(flg_byte, 3)
    THEN header_dict_id(extend_read(e1.rb, inp, e1.pos, content_size_num_size),
                        inp, flg_byte, min_header_size + content_size_num_size)
    ELSE header_dict_id(e1, inp, flg_byte, min_header_size)

\* parse_header from the read of the minimal header (e1) on
header_magic(e1, inp, frame_magic, min_header_size) ==
    IF e1.status # "ok" THEN HeaderFail(ReadFailure(e1.status), e1)
    ELSE IF frame_magic.status # "ok" THEN HeaderFail(Res("Panic"), e1)
    ELSE IF frame_magic.value # U32(FRAME_MAGIC)
    THEN HeaderFail(Res("WrongMagic"), e1)
    ELSE IF e1.rb.n + U32_LEN >= e1.rb.cap THEN HeaderFail(Res("Panic"), e1)
    ELSE header_flags(e1, inp, rb_at(e1.rb, U32_LEN), min_header_size)

header_read(e1, inp, min_header_size) ==
    header_magic(e1, inp, get_u32(e1.rb, 0), min_header_size)

parse_header(rb0, inp, p0) ==
    header_read(extend_read(rb0, inp, p0, U32_LEN + 3), inp, U32_LEN + 3)

\* process_sequence returns [result, completed, rb, wb, sink]
SeqRet(res, done, rb, wb, snk) ==
    [result |-> res, completed |-> done, rb |-> rb, wb |-> wb, sink |-> snk]

\* mutant of seq_copied: a match that ends the staged bytes completes the
\* block
seq_copied_CompletesAtEnd(c, rb) ==
    IF c.status # "ok"
    THEN SeqRet(WriteFailure(c.status), FALSE, rb, c.wb, c.sink)
    ELSE SeqRet(Res("Ok"), rb_len(rb) = 0, rb, c.wb, c.sink)

\* process_sequence after copy_from_offset has returned c
seq_copied(c, rb) ==
    IF c.status # "ok"
    THEN SeqRet(WriteFailure(c.status), FALSE, rb, c.wb, c.sink)
    ELSE SeqRet(Res("Ok"), FALSE, rb, c.wb, c.sink)

\* process_sequence from the match length (m) on
seq_match(m, offset, w) ==
    IF ~m.ok THEN SeqRet(Res("CorruptedData"), FALSE, m.rb, w.wb, w.sink)
    ELSE seq_copied(copy_from_offset(w.wb, w.sink, offset,
                                     m.n + BASE_MATCH_LEN), m.rb)

\* mutant of seq_offset: the offset is not compared with 0
seq_offset_ZeroAllowed(rb1, offset, tok, w) ==
    seq_match(get_var_int_from_buf(consume(rb1, U16_LEN), tok % 16), offset, w)

\* process_sequence from the offset on
seq_offset(rb1, offset, tok, w) ==
    IF offset = 0 THEN SeqRet(Res("CorruptedData"), FALSE, rb1, w.wb, w.sink)
    ELSE seq_match(get_var_int_from_buf(consume(rb1, U16_LEN), tok % 16),
                   offset, w)

\* process_sequence after the literals have been written (w); rb1 is the
\* input buffer behind them
seq_written(w, rb0, rb1, tok) ==
    IF w.status # "ok" THEN SeqRet(WriteFailure(w.status), FALSE, rb0, w.wb, w.sink)
    ELSE IF rb_len(rb1) = 0 THEN SeqRet(Res("Ok"), TRUE, rb1, w.wb, w.sink)
    ELSE IF rb_len(rb1) < U16_LEN
    THEN SeqRet(Res("CorruptedData"), FALSE, rb1, w.wb, w.sink)
    ELSE seq_offset(rb1, u16_from_le_bytes(<<rb_at(rb1, 0), rb_at(rb1, 1)>>),
                    tok, w)

\* mutant of seq_literals: the literal length is not compared with len()
seq_literals_Unchecked(lit, tok, wb0, snk0, smax) ==
    IF ~lit.ok THEN SeqRet(Res("CorruptedData"), FALSE, lit.rb, wb0, snk0)
    ELSE seq_written(write_all(wb0, snk0, smax, rb_prefix(lit.rb, lit.n)),
                     lit.rb, consume(lit.rb, lit.n), tok)

\* process_sequence from the literal length (lit) on
seq_literals(lit, tok, wb0, snk0, smax) ==
    IF ~lit.ok THEN SeqRet(Res("CorruptedData"), FALSE, lit.rb, wb0, snk0)
    ELSE IF lit.n > rb_len(lit.rb)
    THEN SeqRet(Res("CorruptedData"), FALSE, lit.rb, wb0, snk0)
    ELSE seq_written(write_all(wb0, snk0, smax, rb_prefix(lit.rb, lit.n)),
                     lit.rb, consume(lit.rb, lit.n), tok)

\* process_sequence from the token (t) on
seq_token(t, wb0, snk0, smax) ==
    IF ~t.some THEN SeqRet(Res("CorruptedData"), FALSE, t.rb, wb0, snk0)
    ELSE seq_literals(get_var_int_from_buf(t.rb, t.v \div 16), t.v,
                      wb0, snk0, smax)

process_sequence(rb0, wb0, snk0, smax) ==
    seq_token(pop_byte(rb0), wb0, snk0, smax)

----------------------------------------------------------------------------
(* decode, cut at its loop heads.  A run of decode is the record           *)
(* [input, pos, input_buffer, output, sink, sinkMax, frame_header, pc,     *)
(* result]; pc is "start" (line 85), "block" (line 95), "seq" (line 126),  *)
(* "end" (line 134) or "done" (returned).                                  *)

Returned(d, res) == [d EXCEPT !.pc = "done", !.result = res]

\* lines 87-93 once parse_header has returned ph
header_parsed(d, ph) ==
    IF ph.result.kind # "Ok" THEN Returned(d, ph.result)
    ELSE IF ph.info.dict_id_flag
    THEN Returned([d EXCEPT !.frame_header = ph.info],
                  [Res("UnsuppotedFeature") EXCEPT !.feature = "DictID"])
    ELSE [d EXCEPT !.frame_header = ph.info, !.pc = "block"]

header_returned(d, ph) ==
    header_parsed([d EXCEPT !.output = WriteBuf_with_capacity(WINDOW_SIZE),
                            !.input_buffer = ph.rb, !.pos = ph.pos], ph)

\* lines 85-93: the window, parse_header, the DictID check
ParseHeaderStep(d) ==
    header_returned(d, parse_header(d.input_buffer, d.input, d.pos))

\* mutant of block_size_invalid: > for >=
block_size_invalid_Greater(block_size, cap) == block_size > cap

\* line 109: block_size >= self.input_buffer.capacity()
block_size_invalid(block_size, cap) == block_size >= cap

\* lines 121-124: a raw block, written by write_all with result w
raw_written(d, w, e) ==
    IF w.status # "ok"
    THEN Returned([d EXCEPT !.output = w.wb, !.sink = w.sink],
                  WriteFailure(w.status))
    ELSE [d EXCEPT !.output = w.wb, !.sink = w.sink,
                   !.input_buffer = consume(e.rb, rb_len(e.rb)),
                   !.pc = "block"]

\* lines 113-125 once extend_read has returned e
block_read(d, e, is_raw) ==
    IF e.status # "ok" THEN Returned(d, ReadFailure(e.status))
    ELSE IF is_raw
    THEN raw_written(d, write_all(d.output, d.sink, d.sinkMax,
                                  rb_prefix(e.rb, rb_len(e.rb))), e)
    ELSE [d EXCEPT !.pc = "seq"]

block_extended(d, e, is_raw) ==
    block_read([d EXCEPT !.input_buffer = e.rb, !.pos = e.pos], e, is_raw)

\* lines 100-125 once read_u32 has returned bh; d holds the compacted
\* buffer and the new position
block_header(d, bh) ==
    IF ~bh.ok THEN Returned(d, Res("ReadIoError"))
    ELSE IF bh.value = U32(0) THEN [d EXCEPT !.pc = "end"]
    ELSE IF block_size_invalid(bh.value.low, capacity(d.input_buffer))
    THEN Returned(d, [Res("InvalidBlockSize") EXCEPT !.size = bh.value.low])
    ELSE block_extended(d, extend_read(d.input_buffer, d.input, d.pos,
                                       bh.value.low),
                        bh.value.bit31)

block_started(d, bh) ==
    block_header([d EXCEPT !.input_buffer = compact(d.input_buffer),
                           !.pos = bh.pos], bh)

\* lines 96-125: one iteration of the block loop up to the sequence loop
ReadBlockStep(d) == block_started(d, read_u32(d.input, d.pos))

\* lines 127-130 once process_sequence has returned s
sequence_done(d, s) ==
    IF s.result.kind # "Ok" THEN Returned(d, s.result)
    ELSE IF s.completed THEN [d EXCEPT !.pc = "block"]
    ELSE d

sequence_returned(d, s) ==
    sequence_done([d EXCEPT !.input_buffer = s.rb, !.output = s.wb,
                            !.sink = s.sink], s)

\* lines 126-131: one iteration of the sequence loop
ProcessSequenceStep(d) ==
    sequence_returned(d, process_sequence(d.input_buffer, d.output, d.sink,
                                          d.sinkMax))

\* mutant of trailing_data: the count of the last read is ignored
trailing_data_Ignored(n) == FALSE

\* line 141: n != 0
trailing_data(n) == n # 0

\* lines 134-144: the content checksum and the look for trailing bytes
FinishStep(d) ==
    LET ck == read_u32(d.input, d.pos)
        p1 == IF d.frame_header.content_checksum_flag THEN ck.pos ELSE d.pos
        r == read(d.input, p1, 4)
    IN IF d.frame_header.content_checksum_flag /\ ~ck.ok
       THEN Returned([d EXCEPT !.pos = ck.pos], Res("ReadIoError"))
       ELSE IF trailing_data(r.n)
       THEN Returned([d EXCEPT !.pos = r.pos], Res("UnknownDataAtEnd"))
       ELSE Returned([d EXCEPT !.pos = r.pos], Res("Ok"))

Step(d) ==
    CASE d.pc = "start" -> ParseHeaderStep(d)
      [] d.pc = "block" -> ReadBlockStep(d)
      [] d.pc = "seq" -> ProcessSequenceStep(d)
      [] d.pc = "end" -> FinishStep(d)
      [] OTHER -> d

RECURSIVE Run(_)
Run(d) == IF d.pc = "done" THEN d ELSE Run(Step(d))

\* decode(inp, snk) on a decoder made by LzDecoder::new
Fresh(inp, smax) ==
    [input |-> inp, pos |-> 0, input_buffer |-> LzDecoder_new,
     output |-> NoWindow, sink |-> <<>>, sinkMax |-> smax,
     frame_header |-> NoHeader, pc |-> "start", result |-> Running]

Decode(inp, smax) == Run(Fresh(inp, smax))

----------------------------------------------------------------------------
(* Inputs: byte streams assembled from frame parts, well-formed or not     *)

MaxPayload == 3
MaxTail == 2

Magic == <<4, 34, 77, 24>>

\* the four little-endian bytes of a block header: raw flag and size
Le32(raw, v) ==
    <<v % 256, (v \div 256) % 256, (v \div 65536) % 256,
      ((v \div 16777216) % 128) + (IF raw THEN 128 ELSE 0)>>

SeqsUpTo(S, n) == UNION {[1..k -> S] : k \in 0..n}

Prefixes(f) == {SubSeq(f, 1, k) : k \in 0..Len(f)}

\* a block as an encoder lays it out: header word, then the payload
RawBlock(p) == Le32(TRUE, Len(p)) \o p
CompressedBlock(p) == Le32(FALSE, Len(p)) \o p

\* magic, FLG, BD 0x40, content size bytes cs, HC, body
Frame(m, flg, cs, body) == m \o <<flg, 64>> \o cs \o <<130>> \o body

Terminator == Le32(FALSE, 0)

MagicVariants ==
    {Magic, <<4, 34, 77, 25>>, <<5, 34, 77, 24>>, <<0, 0, 0, 0>>,
     <<24, 77, 34, 4>>}

\* FLG: 0x40 plain, 0x41 DictID, 0x44 content checksum, 0x48 content size,
\* 0x49 content size and DictID, 0x50 block checksum, 0x00 / 0x81 / 0xC1
\* other versions
FlgBytes == {64, 65, 68, 72, 73, 80, 0, 129, 193}

ContentSizes ==
    {<<>>, <<1, 0, 0, 0, 0, 0, 0, 0>>, <<1, 0, 0, 0, 1, 0, 0, 128>>,
     <<9, 9, 9, 9, 9, 9, 9, 9>>}

PayloadBytes == {0, 1, 16, 65, 255}

Payloads == SeqsUpTo(PayloadBytes, MaxPayload)

Tails == SeqsUpTo({0, 7}, MaxTail)

\* header variations around one raw block
HeaderFamily ==
    UNION {Prefixes(Frame(m, flg, cs, RawBlock(<<65>>) \o Terminator \o t)) :
             <<m, flg, cs, t>> \in
                 MagicVariants \X FlgBytes \X ContentSizes \X {<<>>, <<7>>}}

\* one block of any payload, then the terminator and a tail
BlockFamily ==
    {Frame(Magic, 64, <<>>, b \o Terminator \o t) :
        <<b, t>> \in ({RawBlock(p) : p \in Payloads}
                        \cup {CompressedBlock(p) : p \in Payloads}) \X Tails}

\* block headers whose size field is around the staging capacity, first in
\* the frame or after a raw block, with some bytes behind them
BlockSizes ==
    {INPUT_BUFFER_SIZE - 1, INPUT_BUFFER_SIZE, INPUT_BUFFER_SIZE + 1,
     16777216, 2147483647}

SizeFamily ==
    {Frame(Magic, 64, <<>>, b \o Le32(raw, sz) \o t) :
        <<b, raw, sz, t>> \in
            {<<>>, RawBlock(<<65>>)} \X BOOLEAN \X BlockSizes
                \X {<<>>, <<1, 2, 3, 4, 5>>, Terminator}}

\* up to two blocks, with and without the content checksum flag and bytes
SmallBlocks ==
    {<<>>, RawBlock(<<65>>), RawBlock(<<1, 2>>), CompressedBlock(<<16, 65>>),
     CompressedBlock(<<16, 65, 1, 0, 0>>), CompressedBlock(<<32, 1, 2, 2, 0, 0>>)}

ChecksumFamily ==
    {Frame(Magic, flg, <<>>, b1 \o b2 \o Terminator \o ck \o t) :
        <<flg, b1, b2, ck, t>> \in
            {64, 68, 100} \X SmallBlocks \X SmallBlocks
                \X {<<>>, <<9, 9, 9, 9>>} \X Tails}

\* one literal, then a match at offset 1 whose length nibble is m, extended
\* by ext when m = 15; then nothing, a last token, or a last literal
RunExtensions == {<<0>>, <<3>>, <<255, 0>>, <<255, 7>>, <<255>>}

RunHeads ==
    ((0..14) \X {0, 65} \X {<<>>}) \cup ({15} \X {0, 65} \X RunExtensions)

RunFamily ==
    {Frame(Magic, 64, <<>>,
           CompressedBlock(<<16 + h[1], h[2], 1, 0>> \o h[3] \o last)
               \o Terminator) :
        h \in RunHeads, last \in {<<>>, <<0>>, <<16, 66>>}}

\* payloads of a compressed block, chosen sequence by sequence: a zero
\* offset behind no, one or two literals and behind an earlier sequence;
\* literal lengths beyond the block; length extensions, finished or not;
\* blocks that end behind a match, one byte behind the literals, or on the
\* literals; matches that reach back before the first byte of the output
SequencePayloads ==
    {<<0, 0, 0>>, <<16, 65, 0, 0>>, <<16, 65, 0, 0, 0>>, <<32, 65, 66, 0, 0, 9>>,
     <<16, 65, 1, 0, 16, 66, 0, 0>>, <<16, 65, 1, 0, 16, 66, 0, 0, 16, 67>>,
     <<16>>, <<32, 65>>, <<48, 65, 66>>, <<16, 65, 1, 0, 32, 66>>,
     <<240, 0>>, <<240, 1, 65>>, <<240>>, <<240, 255>>, <<240, 255, 0>>,
     <<16, 65, 1, 0>>, <<16, 65, 1, 0, 0>>, <<16, 65, 1, 0, 16, 66>>,
     <<16, 65, 9>>, <<32, 65, 66, 1>>, <<16, 65, 1>>, <<0, 1>>,
     <<31, 65, 2, 0, 0, 0>>, <<31, 65, 2, 0, 255, 1, 16, 66>>,
     <<31, 65, 2, 0, 255>>, <<31, 65, 2, 0>>,
     <<0, 1, 0, 0>>, <<16, 65, 2, 0, 0>>, <<16, 65, 3, 0, 16, 66>>,
     <<32, 65, 66, 5, 0, 0>>, <<16, 65, 255, 255, 0>>, <<0, 0, 1, 0>>,
     <<240, 0>> \o [i \in 1..15 |-> 64 + i]}

\* a compressed block of these, first in the frame or behind a raw block
SequenceFamily ==
    {Frame(Magic, 64, <<>>, b \o CompressedBlock(p) \o Terminator) :
        b \in {<<>>, RawBlock(<<66, 67>>)}, p \in SequencePayloads}

\* a sequence of 15 + 255 literals, its length extended by FF 00, and a
\* match behind them
LongSequenceFamily ==
    {Frame(Magic, 64, <<>>,
           CompressedBlock(<<240, 255, 0>> \o [i \in 1..270 |-> i % 256]
                              \o <<1, 0, 0>>)
               \o Terminator)}

Inputs ==
    HeaderFamily \cup BlockFamily \cup SizeFamily \cup ChecksumFamily
        \cup RunFamily \cup SequenceFamily \cup LongSequenceFamily

AcceptAll == INPUT_BUFFER_SIZE

----------------------------------------------------------------------------
(* The program: decode called once on a new decoder (main.rs)              *)

NoCall == [op |-> "none", offset |-> 0, amt |-> 0]

Cur ==
    [input |-> input, pos |-> pos, input_buffer |-> input_buffer,
     output |-> output, sink |-> sink, sinkMax |-> sinkMax,
     frame_header |-> frame_header, pc |-> pc, result |-> result]

Becomes(d) ==
    /\ input' = d.input
    /\ pos' = d.pos
    /\ input_buffer' = d.input_buffer
    /\ output' = d.output
    /\ sink' = d.sink
    /\ sinkMax' = d.sinkMax
    /\ frame_header' = d.frame_header
    /\ pc' = d.pc
    /\ result' = d.result
    /\ UNCHANGED <<call, emitted>>

InitWith(inp, smax) ==
    /\ input = inp
    /\ pos = 0
    /\ input_buffer = LzDecoder_new
    /\ output = NoWindow
    /\ sink = <<>>
    /\ sinkMax = smax
    /\ frame_header = NoHeader
    /\ pc = "start"
    /\ result = Running
    /\ call = NoCall
    /\ emitted = <<>>

\* a sink that takes every write whole, or at most 1 or 2 bytes of each
Init ==
    \/ \E inp \in Inputs : InitWith(inp, AcceptAll)
    \/ \E inp \in ChecksumFamily \cup RunFamily \cup SequenceFamily,
             smax \in {1, 2} :
          InitWith(inp, smax)

ParseHeader == pc = "start" /\ Becomes(ParseHeaderStep(Cur))

ReadBlock == pc = "block" /\ Becomes(ReadBlockStep(Cur))

ProcessSequence == pc = "seq" /\ Becomes(ProcessSequenceStep(Cur))

Finish == pc = "end" /\ Becomes(FinishStep(Cur))

Next == ParseHeader \/ ReadBlock \/ ProcessSequence \/ Finish

Spec == Init /\ [][Next]_vars

\* decode is sequential code: once called it runs on until it returns.  Each
\* handler is a total function of the state, so a step of Next is possible
\* exactly while pc # "done" (C19 checks on every such state that Step(Cur)
\* is a different state).  Pending is Next before the return, with that
\* enabling condition spelled out by its first disjunct, so that whether a
\* step is possible is settled without computing the step; a behaviour of
\* Spec takes no other steps than those of Next.
Pending ==
    /\ pc # "done"
    /\ \/ /\ pc' = "done"
          /\ UNCHANGED <<input, pos, input_buffer, output, sink, sinkMax,
                         frame_header, result, call, emitted>>
       \/ Next

SpecFair == Spec /\ WF_vars(Pending)

----------------------------------------------------------------------------
(* The same program on frames whose single raw block is about as long as   *)
(* the window, with sinks that take about a window's worth of each write   *)

MaxOver == 2

Fill(n, a) == SubSeq([i \in 1..n |-> (a + i) % 256], 1, n)

AroundWindow == {WINDOW_SIZE + k : k \in (0 - 1)..MaxOver}

LargeFamily ==
    {Frame(Magic, 64, <<>>, RawBlock(Fill(n, a)) \o Terminator \o t) :
        n \in AroundWindow, a \in {0, 7}, t \in {<<>>, <<7>>}}

InitLarge ==
    \/ \E inp \in LargeFamily, smax \in AroundWindow \cup {AcceptAll} :
          InitWith(inp, smax)
    \/ \E inp \in ChecksumFamily, smax \in {1, AcceptAll} : InitWith(inp, smax)

SpecLarge == InitLarge /\ [][Next]_vars

----------------------------------------------------------------------------
(* Lz4WriteBuf used on its own, as buffer.rs's tests do: a window of a     *)
(* small capacity over a sink that takes at most sinkMax bytes per write,  *)
(* and any sequence of write_all and copy_from_offset calls until a call   *)
(* panics.  emitted is the expansion the calls stand for: the bytes        *)
(* written, and for a copy, byte by byte, the byte offset places back      *)
(* (0 before the first byte, the window being zero-filled).                *)

MaxEmit == 6

WindowCapacities == {2, 4}

\* buffers handed to write_all: up to two bytes more than the window holds
WriteData(cap) ==
    UNION {{[i \in 1..n |-> 1 + ((a + i) % 2)] : a \in {0, 1}} : n \in 1..(cap + 2)}

RefAt(e, i) == IF i >= 1 THEN e[i] ELSE 0

RECURSIVE RefCopy(_, _, _)
RefCopy(e, offset, amt) ==
    IF amt = 0 THEN e
    ELSE RefCopy(e \o <<RefAt(e, Len(e) + 1 - offset)>>, offset, amt - 1)

InitWindow ==
    \E cap \in WindowCapacities, smax \in {1, 3, 5, AcceptAll} :
        /\ output = WriteBuf_with_capacity(cap)
        /\ sink = <<>>
        /\ sinkMax = smax
        /\ emitted = <<>>
        /\ call = NoCall
        /\ pc = "window"
        /\ result = Running
        /\ input = <<>>
        /\ pos = 0
        /\ input_buffer = LzDecoder_new
        /\ frame_header = NoHeader

\* the state after a window call that ended with status st
AfterCall(r) ==
    /\ output' = r.wb
    /\ sink' = r.sink
    /\ pc' = IF r.status = "ok" THEN "window" ELSE "done"
    /\ result' = IF r.status = "ok" THEN Running ELSE WriteFailure(r.status)
    /\ UNCHANGED <<input, pos, input_buffer, sinkMax, frame_header>>

WriteAll ==
    /\ pc = "window"
    /\ Len(emitted) < MaxEmit
    /\ \E bytes \in WriteData(output.cap) :
          /\ call' = [op |-> "write_all", offset |-> 0, amt |-> Len(bytes)]
          /\ emitted' = emitted \o bytes
          /\ AfterCall(write_all(output, sink, sinkMax, bytes))

CopyFromOffset ==
    /\ pc = "window"
    /\ Len(emitted) < MaxEmit
    /\ \E offset \in 1..output.cap, amt \in 1..(2 * output.cap + 1) :
          /\ call' = [op |-> "copy_from_offset", offset |-> offset, amt |-> amt]
          /\ emitted' = RefCopy(emitted, offset, amt)
          /\ AfterCall(copy_from_offset(output, sink, offset, amt))

NextWindow == WriteAll \/ CopyFromOffset

SpecWindow == InitWindow /\ [][NextWindow]_vars

----------------------------------------------------------------------------
(* One decoder used for two decode calls: the LzDecoder keeps its          *)
(* input_buffer from call to call, while the source, the sink and the      *)
(* window (line 85) belong to the call.  During the second call, call.op   *)
(* is "decode" and emitted holds what the first call wrote to its sink.    *)

\* first inputs that end decode in each of its ways
ReuseErrors ==
    {<<>>, <<4, 34, 77>>, <<0, 0, 0, 0, 64, 64, 130>>,
     <<4, 34, 77, 24, 0, 64, 130>>,
     Frame(Magic, 65, <<1, 2, 3, 4>>, Terminator),
     Frame(Magic, 64, <<>>, CompressedBlock(<<16>>) \o Terminator),
     Frame(Magic, 64, <<>>, CompressedBlock(<<32, 66, 67, 0, 0, 9>>) \o Terminator),
     Frame(Magic, 64, <<>>, CompressedBlock(<<16, 66, 1, 0>>) \o Terminator),
     Frame(Magic, 64, <<>>, Le32(FALSE, INPUT_BUFFER_SIZE)),
     Frame(Magic, 64, <<>>, RawBlock(<<66, 67>>) \o <<0, 0>>)}

ReuseFirst == ReuseErrors \cup ChecksumFamily

\* second inputs: frames that a new decoder decodes to bytes, among them
\* matches that reach back before the first byte of the output, and inputs
\* that a new decoder rejects
ReuseSecond ==
    {Frame(Magic, 64, <<>>, RawBlock(<<65>>) \o Terminator),
     Frame(Magic, 64, <<>>, CompressedBlock(<<16, 65, 1, 0, 0>>) \o Terminator),
     Frame(Magic, 64, <<>>, CompressedBlock(<<16, 65, 2, 0, 0>>) \o Terminator),
     Frame(Magic, 64, <<>>, CompressedBlock(<<0, 1, 0, 0>>) \o Terminator),
     Frame(Magic, 64, <<>>, CompressedBlock(<<16, 65, 255, 255, 0>>) \o Terminator),
     Frame(Magic, 64, <<>>,
           RawBlock(<<66>>) \o CompressedBlock(<<16, 65, 3, 0, 16, 67>>)
               \o Terminator),
     Frame(Magic, 72, <<1, 0, 0, 0>>, RawBlock(<<65>>) \o Terminator),
     <<0, 0, 0, 0, 64, 64, 130>>,
     <<4, 34, 77>>}

InitReuse == \E inp \in ReuseFirst : InitWith(inp, AcceptAll)

\* decode is called again on the decoder of a call that has returned
DecodeAgain ==
    /\ pc = "done"
    /\ call.op = "none"
    /\ result.kind \notin {"Panic", "Hang"}
    /\ \E inp \in ReuseSecond : input' = inp
    /\ pos' = 0
    /\ output' = NoWindow
    /\ sink' = <<>>
    /\ frame_header' = NoHeader
    /\ pc' = "start"
    /\ result' = Running
    /\ call' = [op |-> "decode", offset |-> 0, amt |-> 0]
    /\ emitted' = sink
    /\ UNCHANGED <<input_buffer, sinkMax>>

NextReuse == Next \/ DecodeAgain

SpecReuse == InitReuse /\ [][NextReuse]_vars

----------------------------------------------------------------------------
(* Claims *)

HasMagic(inp) == Len(inp) >= 4 /\ SubSeq(inp, 1, 4) = <<4, 34, 77, 24>>

\* C1: an input of at least 4 bytes whose first 4 bytes are not 04 22 4D 18
\* makes decode return WrongMagic with nothing written to the sink.
C1_WrongMagicAnyLength ==
    (pc = "done" /\ Len(input) >= 4 /\ ~HasMagic(input))
        => (result.kind = "WrongMagic" /\ sink = <<>>)

\* C2: valid magic, FLG version 01 and FLG bit 0 set: decode returns
\* UnsuppotedFeature("DictID") whatever follows the FLG byte, nothing written.
C2_DictIdAnyRest ==
    (pc = "done" /\ HasMagic(input) /\ Len(input) >= 5
       /\ input[5] \div 64 = 1 /\ input[5] % 2 = 1)
        => (result.kind = "UnsuppotedFeature" /\ result.feature = "DictID"
              /\ sink = <<>>)

\* C3: when decode accepts a proper prefix of the input (the input is an
\* accepted frame with bytes appended), decode of the input returns
\* UnknownDataAtEnd and the sink holds what the accepted frame decoded to.
C3_TrailingGarbage ==
    pc = "done" =>
        \A k \in 0..(Len(input) - 1) :
            LET a == Decode(SubSeq(input, 1, k), sinkMax)
            IN a.result.kind = "Ok"
                 => (result.kind = "UnknownDataAtEnd" /\ sink = a.sink)

C3_Witness ==
    /\ pc = "done"
    /\ result.kind = "UnknownDataAtEnd"
    /\ sink # <<>>
    /\ \E k \in 0..(Len(input) - 1) :
           Decode(SubSeq(input, 1, k), sinkMax).result.kind = "Ok"

\* C4: when decode accepts the input, decode of every proper prefix of the
\* input returns ReadIoError or CorruptedData.
C4_NoPrefixAccepted ==
    (pc = "done" /\ result.kind = "Ok") =>
        \A k \in 0..(Len(input) - 1) :
            Decode(SubSeq(input, 1, k), sinkMax).result.kind
                \in {"ReadIoError", "CorruptedData"}

C4_Witness ==
    /\ pc = "done"
    /\ result.kind = "Ok"
    /\ frame_header.content_checksum_flag
    /\ Len(sink) > 1

\* C5: at the head of the block loop, a block header of four zero bytes
\* leaves the loop; a non-zero one whose low 31 bits are >= 4 MiB makes decode
\* return InvalidBlockSize with those bits, raw flag or not, the source
\* having delivered the 4 header bytes and nothing after them.
C5_BlockSizeCap ==
    [][(pc = "block" /\ Remaining(input, pos) >= 4) =>
         LET b == SubSeq(input, pos + 1, pos + 4)
             size == b[1] + 256 * b[2] + 65536 * b[3] + 16777216 * (b[4] % 128)
         IN /\ b = <<0, 0, 0, 0>> =>
                  (pc' = "end" /\ result' = Running /\ pos' = pos + 4
                     /\ sink' = sink)
            /\ (b # <<0, 0, 0, 0>> /\ size >= 4194304) =>
                  (pc' = "done" /\ result'.kind = "InvalidBlockSize"
                     /\ result'.size = size /\ pos' = pos + 4 /\ sink' = sink)
      ]_vars

C5_Witness ==
    /\ pc = "done"
    /\ result.kind = "InvalidBlockSize"
    /\ result.size > 4194304
    /\ input[pos] >= 128
    /\ sink # <<>>
    /\ Remaining(input, pos) > 0

\* C10: when parse_header succeeds on a header with FLG bit 3 set, the source
\* has delivered 15 bytes, so the first block header is read at offset 15.
C10_ContentSizeIs8Bytes ==
    [][(pc = "start" /\ pc' = "block" /\ frame_header'.content_size_flag)
         => pos' = 15]_vars

\* the payload of the one raw block of the frame inp, when inp is magic,
\* FLG (version 01, no content size, no content checksum, no DictID), BD, HC,
\* a raw block header of a size below 4 MiB, that many bytes, four zero bytes
RawSize(inp) ==
    inp[8] + 256 * inp[9] + 65536 * inp[10] + 16777216 * (inp[11] % 128)

IsSingleRawFrame(inp) ==
    /\ Len(inp) >= 15
    /\ HasMagic(inp)
    /\ inp[5] \div 64 = 1
    /\ inp[5] % 2 = 0 /\ (inp[5] \div 4) % 4 = 0
    /\ inp[11] >= 128
    /\ RawSize(inp) < 4194304
    /\ Len(inp) = 15 + RawSize(inp)
    /\ SubSeq(inp, Len(inp) - 3, Len(inp)) = <<0, 0, 0, 0>>

\* C6: a frame of one raw block of any size below 4 MiB and the terminator
\* decodes to the block's bytes and decode returns Ok.
C6_RawBlockIdentity ==
    (pc = "done" /\ IsSingleRawFrame(input))
        => (result.kind = "Ok" /\ sink = SubSeq(input, 12, Len(input) - 4))

\* the value of the 0xFF-chain that starts at st[i]; -1 when st ends first
RECURSIVE ChainValue(_, _)
ChainValue(st, i) ==
    IF i > Len(st) THEN 0 - 1
    ELSE IF st[i] # 255 THEN st[i]
    ELSE LET r == ChainValue(st, i + 1) IN IF r < 0 THEN r ELSE 255 + r

\* the staged bytes of the current block that are still unread
Staged == BufSlice(input_buffer.buf, input_buffer.n, input_buffer.end)

\* the match length N of a staged sequence <<token, A, 01, 00, ...>>
RunLength(st) ==
    IF st[1] % 16 < 15 THEN (st[1] % 16) + 4 ELSE 15 + ChainValue(st, 5) + 4

IsRunSequence(st) ==
    /\ Len(st) >= 4
    /\ st[1] \div 16 = 1
    /\ st[3] = 1 /\ st[4] = 0
    /\ st[1] % 16 = 15 => ChainValue(st, 5) >= 0

\* C7: a sequence of one literal A and a match of offset 1 and length N
\* makes the sink receive A and then N more A.
C7_RunOfLiteral ==
    [][(pc = "seq" /\ IsRunSequence(Staged))
         => sink' = sink \o [i \in 1..(1 + RunLength(Staged)) |-> Staged[2]]
      ]_vars

C7_Witness ==
    /\ pc = "seq"
    /\ input_buffer.n = 6
    /\ BufSlice(input_buffer.buf, 0, 6) = <<31, 65, 1, 0, 255, 7>>
    /\ Len(sink) = 282
    /\ sink[282] = 65

\* C8 as claimed, for 1 <= offset <= W: a copy_from_offset(offset, length)
\* call returns having appended to the sink the length bytes that each lie
\* offset places behind the end of the sink at the moment they are appended.
C8_CopyOffsetUpToW ==
    [][(pc = "window" /\ call'.op = "copy_from_offset")
         => (pc' = "window"
               /\ sink' = RefCopy(sink, call'.offset, call'.amt))]_vars

\* C8 as the code has it, for 1 <= offset <= W - 1 and length >= 1: the same,
\* wherever the cursor is, whether or not the source or the destination
\* range crosses the end of the ring, up to offset W - 1.
C8_CopyOffsetBelowW ==
    [][(pc = "window" /\ call'.op = "copy_from_offset"
          /\ call'.offset < output.cap)
         => (pc' = "window"
               /\ sink' = RefCopy(sink, call'.offset, call'.amt))]_vars

\* a returned copy with the largest offset and a length above it, made when
\* the ring had already wrapped and the cursor was not at slot 0
C8_Witness ==
    /\ pc = "window"
    /\ call.op = "copy_from_offset"
    /\ output.cap = 4
    /\ call.offset = 3
    /\ call.amt = 5
    /\ Len(sink) = 10
    /\ output.end = 2
    /\ sink[10] = 2

IsPrefix(a, b) == Len(a) <= Len(b) /\ a = SubSeq(b, 1, Len(a))

\* a returned write_all call whose buffer of more than W bytes the sink took
\* in one write
TookWhole(c, cap, smax) == c.op = "write_all" /\ c.amt > cap /\ smax >= c.amt

C11_SecondCallAsFresh ==
    (call.op = "decode" /\ pc = "done") =>
        /\ result = Decode(input, sinkMax).result
        /\ sink = Decode(input, sinkMax).sink


\* the number of bytes of the 0xFF-chain that starts at st[i], up to and
\* with its first byte that is not 255
RECURSIVE ChainBytes(_, _)
ChainBytes(st, i) ==
    IF i > Len(st) THEN 0
    ELSE IF st[i] # 255 THEN 1
    ELSE 1 + ChainBytes(st, i + 1)

\* a staged sequence st: its literal length (negative when the extension
\* runs to the end of st) and the number of bytes before its literals
LitLen(st) ==
    IF st[1] \div 16 < 15 THEN st[1] \div 16
    ELSE IF ChainValue(st, 2) < 0 THEN 0 - 1 ELSE 15 + ChainValue(st, 2)

LitHead(st) == IF st[1] \div 16 < 15 THEN 1 ELSE 1 + ChainBytes(st, 2)

Literals(st) == SubSeq(st, LitHead(st) + 1, LitHead(st) + LitLen(st))

\* the bytes of st behind its literals
AfterLiterals(st) == SubSeq(st, LitHead(st) + LitLen(st) + 1, Len(st))

HasLiterals(st) ==
    /\ Len(st) >= 1
    /\ LitLen(st) >= 0
    /\ Len(st) >= LitHead(st) + LitLen(st)

HasZeroOffset(st) ==
    /\ HasLiterals(st)
    /\ Len(AfterLiterals(st)) >= 2
    /\ AfterLiterals(st)[1] = 0
    /\ AfterLiterals(st)[2] = 0

\* C12: a sequence whose match offset is 0 ends decode with CorruptedData;
\* the sink keeps what it had and receives the sequence's literals and
\* nothing more.
C12_ZeroOffsetRejected ==
    [][(pc = "seq" /\ HasZeroOffset(Staged))
         => /\ pc' = "done"
            /\ result'.kind = "CorruptedData"
            /\ sink' = sink \o Literals(Staged)
      ]_vars

\* the second sequence of 10 41 01 00 10 42 00 00 has been refused with its
\* literal B written behind the five A of the first
C12_Witness ==
    /\ pc = "done"
    /\ result.kind = "CorruptedData"
    /\ sink = <<65, 65, 65, 65, 65, 66>>
    /\ rb_len(input_buffer) >= 2
    /\ rb_at(input_buffer, 0) = 0
    /\ rb_at(input_buffer, 1) = 0


\* C13: on a window of W bytes, write of a buffer of more than W bytes of
\* which the sink takes amt > W returns amt without panicking, with the
\* cursor at 0 and the ring holding bytes[amt-W .. amt).
C13_WriteAnyAccepted ==
    pc = "window" =>
        \A bytes \in WriteData(output.cap) :
            LET w == write(output, sink, sinkMax, bytes)
            IN (Len(bytes) > output.cap /\ w.amt > output.cap) =>
                  /\ w.status = "ok"
                  /\ w.wb.end = 0
                  /\ BufSlice(w.wb.buf, 0, output.cap)
                        = SubSeq(bytes, w.amt - output.cap + 1, w.amt)


\* the literal length of st is read whole and is more than the bytes of st
\* behind it
LiteralsOverrun(st) ==
    /\ Len(st) >= 1
    /\ LitLen(st) >= 0
    /\ LitLen(st) > Len(st) - LitHead(st)

\* C14: a sequence whose literal length exceeds the bytes still staged ends
\* decode with CorruptedData and the sink receives nothing from it.
C14_LiteralOverrunRejected ==
    [][(pc = "seq" /\ LiteralsOverrun(Staged))
         => /\ pc' = "done"
            /\ result'.kind = "CorruptedData"
            /\ sink' = sink
      ]_vars

\* the second sequence of 10 41 01 00 20 42 announces two literals where
\* one byte is staged: refused, the sink holding the five A of the first
C14_Witness ==
    /\ pc = "done"
    /\ result.kind = "CorruptedData"
    /\ sink = <<65, 65, 65, 65, 65>>
    /\ input_buffer.n = 5
    /\ rb_len(input_buffer) = 1
    /\ BufGet(input_buffer.buf, 4) = 32


\* the match length base of the staged sequence st extended as the bytes
\* behind its offset say; negative when the extension runs to the end of st
MatchValue(st) ==
    IF st[1] % 16 < 15 THEN st[1] % 16
    ELSE IF ChainValue(AfterLiterals(st), 3) < 0 THEN 0 - 1
    ELSE 15 + ChainValue(AfterLiterals(st), 3)

HasMatch(st) ==
    /\ HasLiterals(st)
    /\ Len(AfterLiterals(st)) >= 2
    /\ ~HasZeroOffset(st)
    /\ MatchValue(st) >= 0

\* C15: get_var_int_from_buf(base) on the staged bytes returns base and
\* reads nothing for base < 15; for base 15 it reads up to and with the
\* first byte that is not 255 and returns 15 plus the sum of the bytes read,
\* or fails when the staged bytes end first.  A sequence's match emits that
\* value for the token's low nibble plus 4 bytes.
C15_VarIntExtend ==
    /\ [](\A base \in 0..15 :
            LET r == get_var_int_from_buf(input_buffer, base)
            IN /\ base < 15 => (r.ok /\ r.n = base /\ r.rb = input_buffer)
               /\ (base = 15 /\ ChainValue(Staged, 1) >= 0) =>
                     /\ r.ok
                     /\ r.n = 15 + ChainValue(Staged, 1)
                     /\ r.rb = consume(input_buffer, ChainBytes(Staged, 1))
               /\ (base = 15 /\ ChainValue(Staged, 1) < 0) => ~r.ok)
    /\ [][(pc = "seq" /\ HasMatch(Staged))
            => Len(sink') = Len(sink) + LitLen(Staged) + MatchValue(Staged) + 4
         ]_vars

\* the sequence 1F 41 02 00 FF 01 has been decoded: one literal and a match
\* of 15 + 255 + 1 + 4 bytes
C15_Witness ==
    /\ pc = "seq"
    /\ input_buffer.n = 6
    /\ BufSlice(input_buffer.buf, 0, 6) = <<31, 65, 2, 0, 255, 1>>
    /\ Len(sink) = 276


\* C16: the sequence loop leaves a block as complete only on a sequence
\* whose literals are the last staged bytes; a sequence with a match never
\* completes the block, so when the staged bytes end behind a match the next
\* token read ends decode with CorruptedData, the match bytes staying in the
\* sink; a single byte left behind the literals ends decode with
\* CorruptedData as well.
C16_BlockEndsOnLiterals ==
    [][pc = "seq" =>
         /\ pc' = "block" => (HasLiterals(Staged) /\ AfterLiterals(Staged) = <<>>)
         /\ (Len(Staged) >= 1 /\ HasMatch(Staged)) => pc' # "block"
         /\ Staged = <<>> =>
               (pc' = "done" /\ result'.kind = "CorruptedData" /\ sink' = sink)
         /\ (HasLiterals(Staged) /\ Len(AfterLiterals(Staged)) = 1) =>
               (pc' = "done" /\ result'.kind = "CorruptedData")
      ]_vars

\* the block 10 41 01 00 ended behind its match: the five A are in the sink
\* and the read of the next token has ended decode
C16_Witness ==
    /\ pc = "done"
    /\ result.kind = "CorruptedData"
    /\ sink = <<65, 65, 65, 65, 65>>
    /\ input_buffer.n = 4
    /\ rb_len(input_buffer) = 0
    /\ BufSlice(input_buffer.buf, 0, 4) = <<16, 65, 1, 0>>


\* C17: get_u32(index) returns the little-endian u32 of the four staged
\* bytes at n + index, whenever n + index + 4 <= end.
C17_GetU32AnyIndex ==
    \A index \in 0..3 :
        input_buffer.n + index + 4 <= input_buffer.end =>
            /\ get_u32(input_buffer, index).status = "ok"
            /\ get_u32(input_buffer, index).value
                  = u32_from_le_bytes(BufSlice(input_buffer.buf,
                                               input_buffer.n + index,
                                               input_buffer.n + index + 4))


\* C18: for decode on a new decoder, 0 <= n <= end <= capacity always holds
\* for the staging buffer; whenever a block header is read nothing is
\* staged, and the compaction before the read leaves n = end = 0, so that
\* the block's bytes are staged from slot 0 and fit the capacity; every
\* consume stays within the staged bytes: the header's consumes all bytes
\* read, a raw block's all bytes of the block, a sequence's move n forward
\* up to end; no buffer operation panics.
C18_StagingOrdered ==
    /\ [](/\ 0 <= input_buffer.n
          /\ input_buffer.n <= input_buffer.end
          /\ input_buffer.end <= capacity(input_buffer)
          /\ pc = "block" => rb_len(input_buffer) = 0
          /\ result.kind # "Panic")
    /\ [][/\ (pc = "start" /\ pc' = "block") =>
                /\ frame_header'.header_size = pos'
                /\ input_buffer'.n = 0 /\ input_buffer'.end = 0
          /\ (pc = "block" /\ pc' = "end") =>
                (input_buffer'.n = 0 /\ input_buffer'.end = 0)
          /\ (pc = "block" /\ pc' = "seq") =>
                /\ input_buffer'.n = 0
                /\ input_buffer'.end = pos' - pos - U32_LEN
                /\ Staged' = SubSeq(input, pos + U32_LEN + 1, pos')
          /\ (pc = "block" /\ pc' = "block") =>
                /\ input_buffer'.n = pos' - pos - U32_LEN
                /\ input_buffer'.end = input_buffer'.n
          /\ pc = "seq" =>
                /\ input_buffer.n <= input_buffer'.n
                /\ input_buffer'.n <= input_buffer.end
                /\ input_buffer'.end = input_buffer.end
         ]_vars

\* the second block of a frame, five bytes behind a raw block of two, is
\* staged from slot 0
C18_Witness ==
    /\ pc = "seq"
    /\ pos = 22
    /\ input_buffer.n = 0
    /\ input_buffer.end = 5
    /\ Staged = <<16, 65, 1, 0, 0>>
    /\ sink = <<1, 2>>


\* C19: with a sink that takes every write whole, decode returns.  While it
\* has not returned its next step leads to a different state; each turn of
\* the block loop that does not return takes at least 4 bytes from the
\* source; each sequence that does not return takes at least one staged
\* byte; copy_from_offset is never entered with offset 0, the case in which
\* its loop would not advance, and a match ends having emitted exactly its
\* length.
C19_DecodeTerminates ==
    /\ (sinkMax = AcceptAll) => <>(pc = "done")
    /\ [](result.kind # "Hang")
    /\ [](pc # "done" => Step(Cur) # Cur)
    /\ [][/\ (pc = "block" /\ pc' # "done") => pos' >= pos + U32_LEN
          /\ (pc = "seq" /\ pc' # "done") =>
                input_buffer'.n >= input_buffer.n + 1
          /\ (pc = "seq" /\ HasMatch(Staged)) =>
                Len(sink') = Len(sink) + LitLen(Staged) + MatchValue(Staged) + 4
         ]_vars

\* decode has returned Ok behind a match of 281 bytes copied one byte at a
\* time and a last, empty sequence
C19_Witness ==
    /\ pc = "done"
    /\ result.kind = "Ok"
    /\ sinkMax = AcceptAll
    /\ pos = Len(input)
    /\ Len(sink) = 282
    /\ sink[282] = 65


\* the offset of the match of the staged sequence st
MatchOffset(st) == u16_from_le_bytes(AfterLiterals(st))

\* the match of st reaches back before the first byte that this decode call
\* has emitted when the copy starts
ReachesBeforeStart(st, snk) ==
    /\ HasMatch(st)
    /\ MatchOffset(st) > Len(snk) + LitLen(st)

\* C20: a match whose offset is larger than the number of bytes the current
\* decode call has emitted is not rejected: decode goes on, and the sink
\* receives the literals and then the match copied byte by byte, a position
\* before the first byte of this call's output reading as 0; no byte of an
\* earlier call on the same decoder comes back.
C20_MatchBeforeStartReadsZero ==
    [][(pc = "seq" /\ ReachesBeforeStart(Staged, sink))
         => /\ pc' = "seq"
            /\ result' = Running
            /\ sink' = RefCopy(sink \o Literals(Staged), MatchOffset(Staged),
                               MatchValue(Staged) + BASE_MATCH_LEN)
      ]_vars

\* a second call on a decoder whose first call emitted B and C: after B, the
\* sequence 10 41 03 00 has emitted A and the match 00 42 41 00, whose first
\* byte lies before this call's output
C20_Witness ==
    /\ call.op = "decode"
    /\ emitted = <<66, 67>>
    /\ pc = "seq"
    /\ sink = <<66, 65, 0, 66, 65, 0>>
    /\ output.total_written = 6

====
